---- MODULE Spec2Model ----
(***************************************************************************)
(* State-machine model of OculusRoomTinyApp (Win32_OculusRoomTiny.cpp/.h): *)
(* startup, the Run loop's message handlers and the per-frame OnIdle.      *)
(*                                                                         *)
(* Numbers.  The program computes in float; the model computes in exact    *)
(* fixed point (rounding of float arithmetic is not modelled):             *)
(*   angles      integer multiples of 1/AngleDen radian                    *)
(*   quaternion  components are integer multiples of 1/QDen                *)
(*   products of two quaternion components: multiples of 1/QOne            *)
(*   stick axes  integer multiples of 1/PadDen                             *)
(*   dt          integer multiples of 1/DtDen second                       *)
(* atan2 and asin are tabulated on that grid, rounded to 1/AngleDen.       *)
(*   sin, cos, unit vectors   integer multiples of 1/TrigDen               *)
(*   positions   integer multiples of 1/PosDen metre                       *)
(*   head offsets integer multiples of 1/HeadDen metre                     *)
(*   IPD         a float: a significand m of at most 24 bits and an        *)
(*               exponent e, the value m * 2^e metre; its sums round as    *)
(*               IEEE single precision does                                *)
(* sin and cos are a Taylor polynomial after range reduction, sqrt is      *)
(* tabulated; both are rounded to 1/TrigDen.                               *)
(***************************************************************************)
EXTENDS Integers, Sequences, FiniteSets, TLC

\* ------------------------------------------------------------ number units
AngleDen == 9000000
QDen == 2
QOne == QDen * QDen
PadDen == 4
DtDen == 1000
TrigDen == 10000
PosDen == TrigDen * DtDen
HeadDen == 100

Abs(n) == IF n < 0 THEN -n ELSE n

\* a / b rounded to the nearest integer, halves away from zero
RDiv(a, b) == IF a >= 0 THEN (a + b \div 2) \div b
                        ELSE -((b \div 2 - a) \div b)

\* ------------------------------------------------------- program constants
YawInitial == 28274328
Sensitivity == 1
MoveSpeed == 3
\* (3.1415f/2)*0.98f
maxPitch == 13854015
\* PI_F / 2 with PI_F = 3.14159265358979f
PI_F_Half == 14137167
\* pi as returned by atan2(+0, negative)
Pi == 28274334

\* --------------------------------------------------------------- libm model
\* AtanTable[q][p+1] = atan(p/q) for 0 <= p <= q <= 16
AtanTable ==
  << <<0, 7068583>>,
     <<0, 4172828, 7068583>>,
     <<0, 2895755, 5292023, 7068583>>,
     <<0, 2204808, 4172828, 5791510, 7068583>>,
     <<0, 1776560, 3424557, 4863776, 6072668, 7068583>>,
     <<0, 1486338, 2895755, 4172828, 5292023, 6252644, 7068583>>,
     <<0, 1277073, 2504697, 3644026, 4672315, 5582245, 6377636, 7068583>>,
     <<0, 1119195, 2204808, 3228936, 4172828, 5027394, 5791510, 6469470, 7068583>>,
     <<0, 995915, 1968021, 2895755, 3764019, 4563887, 5292023, 5949389, 6539781, 7068583>>,
     <<0, 897018, 1776560, 2623111, 3424557, 4172828, 4863776, 5496534, 6072668, 6595336, 7068583>>,
     <<0, 815939, 1618681, 2396268, 3138939, 3839647, 4494120, 5100563, 5659167, 6171566, 6640336, 7068583>>,
     <<0, 748271, 1486338, 2204808, 2895755, 3553120, 4172828, 4752670, 5292023, 5791510, 6252644, 6677525, 7068583>>,
     <<0, 690947, 1373844, 2041190, 2686490, 3304565, 3891670, 4445472, 4964895, 5449902, 5901261, 6320312, 6708775, 7068583>>,
     <<0, 641767, 1277073, 1899840, 2504697, 3087215, 3644026, 4172828, 4672315, 5142037, 5582245, 5993723, 6377636, 6735402, 7068583>>,
     <<0, 599113, 1192964, 1776560, 2345422, 2895755, 3424557, 3929644, 4409616, 4863776, 5292023, 5694740, 6072668, 6426816, 6758362, 7068583>>,
     <<0, 561769, 1119195, 1668132, 2204808, 2725964, 3228936, 3711694, 4172828, 4611505, 5027394, 5420586, 5791510, 6140849, 6469470, 6778362, 7068583>> >>

\* atan(a/b) for a >= 0, b > 0, result in [0, pi/2)
AtanPos(a, b) ==
  IF a <= b THEN AtanTable[b][a + 1]
            ELSE (Pi \div 2) - AtanTable[a][b + 1]

\* A float of the decomposition: its value v and its sign bit neg, which
\* tells -0 from +0.  FloatOf(n) is the float of the number n, +0 for 0.
FloatOf(n) == [v |-> n, neg |-> n < 0]

\* IEEE products, sums and differences (round to nearest) of floats that are
\* exact: a zero product has the sign of its factors' signs combined, a sum
\* of zeros is -0 only when both are -0, and a sum that cancels is +0
FloatMul(a, b) == [v |-> a.v * b.v, neg |-> a.neg # b.neg]
FloatAdd(a, b) ==
  [v |-> a.v + b.v,
   neg |-> IF a.v + b.v # 0 THEN a.v + b.v < 0
           ELSE a.v = 0 /\ b.v = 0 /\ a.neg /\ b.neg]
FloatNeg(a) == [v |-> -a.v, neg |-> ~a.neg]
FloatSub(a, b) == FloatAdd(a, FloatNeg(b))

\* atan2(y, x) of <math.h> for floats y and x of the same unit, |y|, |x| <= 16:
\* atan2(+0, x) is 0 for x > 0 or x = +0 and +pi for x < 0 or x = -0,
\* atan2(-0, x) is the negative of that (the sign of a zero result is not kept)
Atan2(y, x) ==
  IF y.v > 0
  THEN (IF x.v > 0 THEN AtanPos(y.v, x.v)
        ELSE IF x.v < 0 THEN Pi - AtanPos(y.v, -x.v) ELSE Pi \div 2)
  ELSE IF y.v < 0
  THEN (IF x.v > 0 THEN -AtanPos(-y.v, x.v)
        ELSE IF x.v < 0 THEN AtanPos(-y.v, -x.v) - Pi ELSE -(Pi \div 2))
  ELSE LET half == IF x.v > 0 THEN 0
                   ELSE IF x.v < 0 THEN Pi
                   ELSE IF x.neg THEN Pi ELSE 0
       IN  IF y.neg THEN -half ELSE half

\* AsinTable[k] = asin(k/QOne), 1 <= k <= QOne
AsinTable == <<2274122, 4712389, 7632559, 14137167>>

\* asin(s) of <math.h>, s in units of 1/QOne; outside [-1, 1] the result is NaN
Asin(s) ==
  IF s > QOne \/ s < -QOne THEN "NaN"
  ELSE IF s = 0 THEN 0
  ELSE IF s > 0 THEN AsinTable[s] ELSE -AsinTable[-s]

\* sin(x) for 0 <= x <= pi/2, x and the result in units of 1/TrigDen:
\* x - x^3/3! + x^5/5! - x^7/7! + x^9/9!
SinSeries(x) ==
  LET x2 == RDiv(x * x, TrigDen)
      t3 == RDiv(x * x2, 6 * TrigDen)
      t5 == RDiv(t3 * x2, 20 * TrigDen)
      t7 == RDiv(t5 * x2, 42 * TrigDen)
      t9 == RDiv(t7 * x2, 72 * TrigDen)
  IN  x - t3 + t5 - t7 + t9

\* sin(a) of <math.h>, a in angle units, result in units of 1/TrigDen
Sin(a) ==
  LET r == a % (2 * Pi)
      u(x) == SinSeries(RDiv(x, AngleDen \div TrigDen))
  IN  IF r <= Pi \div 2 THEN u(r)
      ELSE IF r <= Pi THEN u(Pi - r)
      ELSE IF r <= Pi + Pi \div 2 THEN -u(r - Pi)
      ELSE -u(2 * Pi - r)

\* cos(a) of <math.h>
Cos(a) == Sin(a + Pi \div 2)

\* SqrtTable[n] = sqrt(n) in units of 1/TrigDen, 1 <= n <= 3
SqrtTable == <<10000, 14142, 17321>>

\* --------------------------------------------------- Vector3f and Matrix4f
VAdd(a, b) == <<a[1] + b[1], a[2] + b[2], a[3] + b[3]>>
VNeg(a) == <<-a[1], -a[2], -a[3]>>
VScale(a, k) == <<a[1] * k, a[2] * k, a[3] * k>>
VRDiv(a, d) == <<RDiv(a[1], d), RDiv(a[2], d), RDiv(a[3], d)>>
LengthSq(a) == a[1] * a[1] + a[2] * a[2] + a[3] * a[3]

\* Vector3f::Normalize for a vector of components -1, 0, 1 that is not
\* zero: the vector divided by its length, in units of 1/TrigDen
NormalizeNone(v) == VScale(v, TrigDen)
Normalize(v) == VRDiv(VScale(v, TrigDen * TrigDen), SqrtTable[LengthSq(v)])

\* Matrix4f::RotationX/Y/Z(angle): the upper 3x3 block, rows first, in
\* units of 1/TrigDen
RotationX(a) ==
  LET sina == Sin(a)
      cosa == Cos(a)
  IN  << <<TrigDen, 0, 0>>, <<0, cosa, -sina>>, <<0, sina, cosa>> >>
RotationY(a) ==
  LET sina == Sin(a)
      cosa == Cos(a)
  IN  << <<cosa, 0, sina>>, <<0, TrigDen, 0>>, <<-sina, 0, cosa>> >>
RotationZ(a) ==
  LET sina == Sin(a)
      cosa == Cos(a)
  IN  << <<cosa, -sina, 0>>, <<sina, cosa, 0>>, <<0, 0, TrigDen>> >>

\* Matrix4f::operator* of two rotations, in units of 1/TrigDen
MatEntry(m, n, i, j) ==
  RDiv(m[i][1] * n[1][j] + m[i][2] * n[2][j] + m[i][3] * n[3][j], TrigDen)
MatMul(m, n) ==
  << <<MatEntry(m, n, 1, 1), MatEntry(m, n, 1, 2), MatEntry(m, n, 1, 3)>>,
     <<MatEntry(m, n, 2, 1), MatEntry(m, n, 2, 2), MatEntry(m, n, 2, 3)>>,
     <<MatEntry(m, n, 3, 1), MatEntry(m, n, 3, 2), MatEntry(m, n, 3, 3)>> >>

\* Matrix4f::Transform(v) for a rotation m: the result is in the unit of v
\* times 1/TrigDen
Transform(m, v) ==
  << m[1][1] * v[1] + m[1][2] * v[2] + m[1][3] * v[3],
     m[2][1] * v[1] + m[2][2] * v[2] + m[2][3] * v[3],
     m[3][1] * v[1] + m[3][2] * v[2] + m[3][3] * v[3] >>

\* ------------------------------------------------------------------- state
VARIABLES
  pc,              \* WinMain: "constructed", "running" (inside Run), "exited"
  exitCode,        \* WinMain's exitCode
  pSensor,         \* Ptr<SensorDevice> non-null (attached to SFusion)
  tss_isStreaming, \* global: external tracker stream started
  tss_packet,      \* global: last streamed quaternion <<x, y, z, w>>
  SFusion,         \* Y-X-Z Euler angles of SFusion.GetOrientation()
  EyePos,          \* Vector3f, in units of 1/PosDen metre
  EyeYaw, EyePitch, EyeRoll, LastSensorYaw,
  View,            \* the arguments of the LookAtRH call that built View
  MoveForward, MoveBack, MoveLeft, MoveRight,
  GamepadMove, GamepadRotate,
  ShiftDown, ControlDown, Quit, MouseCaptured,
  pXInputGetState, \* XInputGetState entry point loaded (non-null)
  LastPadPacketNo,
  msgQueue,        \* the thread's message queue: posted, not yet retrieved
  idle,            \* Run is in its else branch (PeekMessage found nothing),
                   \* and the input the branch was entered with
  StereoMode, PostProcess, PostProcessShader, IPD,
  \* history variables (not program state)
  held,            \* keys whose last event was a key-down
  ipd,             \* the last key event's effect on the IPD, and the IPDs
                   \* before the + presses not yet undone by a - press
  nMouse,          \* number of mouse moves delivered
  mouseYaw,        \* sum of Sensitivity*dx/360 over all mouse moves
  padYaw,          \* sum of GamepadRotate.x*dt over all frames
  firstYaw,        \* tracked yaw read by the first frame of the run
  hs,              \* outcome of the connect handshakes in OnStartup
  frame,           \* values inside the last OnIdle
  motion,          \* the motion integration inside the last OnIdle
  poll,            \* what the pad reported to the last Run iteration, and
                   \* a raw thumbstick value with what GamepadStick made of it
  lastOp           \* the handler that ran last, with its arguments' effect

poseVars  == <<EyeYaw, EyePitch, EyeRoll, LastSensorYaw>>
moveVars  == <<MoveForward, MoveBack, MoveLeft, MoveRight>>
padVars   == <<GamepadMove, GamepadRotate, pXInputGetState, LastPadPacketNo>>
posVars   == <<EyePos, View, motion, poll>>
loopVars  == <<msgQueue, idle>>
keyVars   == <<ShiftDown, ControlDown, Quit, held, ipd>>
viewVars  == <<StereoMode, PostProcess, PostProcessShader, IPD>>
devVars   == <<pSensor, tss_isStreaming, hs>>
histVars  == <<nMouse, mouseYaw, padYaw, firstYaw, frame>>
vars == <<pc, exitCode, devVars, tss_packet, SFusion, poseVars, moveVars,
          padVars, posVars, loopVars, keyVars, MouseCaptured, viewVars, histVars, lastOp>>

\* ------------------------------------------------------------------ bounds
\* frames processed in one run
MaxFrames == 3
\* mouse moves delivered in one run
MaxMouse == 1
\* frames followed in a run of the motion specification
MaxMoveFrames == 1
\* + presses in a run of the IPD hotkeys that is one row of + presses
\* followed by - presses, Shift as it was at the first press
MaxIPDRun == 125
\* messages posted and not yet retrieved
MaxQueue == 2
\* presses of the IPD hotkeys in a run that mixes them freely
MaxIPDPresses == 6

\* --------------------------------------------------------------- float
\* bits of a float's significand
SigBits == 24

RECURSIVE Pow2(_)
Pow2(n) == IF n <= 0 THEN 1 ELSE 2 * Pow2(n - 1)

\* the number of bits of n > 0
RECURSIVE BitLength(_)
BitLength(n) == IF n < 2 THEN 1 ELSE 1 + BitLength(n \div 2)

\* the float 0
F32Zero == [m |-> 0, e |-> 0]

\* sig * 2^e rounded to a float, nearest, ties to even (|sig| < 2^31; the
\* range of the exponent is not limited and a zero has no sign)
F32Round(sig, e) ==
  LET mag == IF sig < 0 THEN -sig ELSE sig
      k   == BitLength(mag)
      sh  == k - SigBits
      q   == mag \div Pow2(sh)
      r   == mag % Pow2(sh)
      up  == r > Pow2(sh - 1) \/ (r = Pow2(sh - 1) /\ q % 2 = 1)
      q2  == IF up THEN q + 1 ELSE q
      sgn == IF sig < 0 THEN -1 ELSE 1
  IN  IF mag = 0 THEN F32Zero
      ELSE IF sh <= 0 THEN [m |-> sig * Pow2(-sh), e |-> e + sh]
      ELSE IF q2 = Pow2(SigBits) THEN [m |-> sgn * Pow2(SigBits - 1), e |-> e + sh + 1]
      ELSE [m |-> sgn * q2, e |-> e + sh]

\* x + y for floats that are not 0, x.e >= y.e: y is shifted to x's
\* exponent with a guard, a round and a sticky bit, and the sum is rounded
F32AddAligned(x, y) ==
  LET d    == x.e - y.e
      ymag == 4 * (IF y.m < 0 THEN -y.m ELSE y.m)
      grs  == 2 * (ymag \div Pow2(d)) + (IF ymag % Pow2(d) # 0 THEN 1 ELSE 0)
  IN  IF d > SigBits + 1 THEN x
      ELSE F32Round(8 * x.m + (IF y.m < 0 THEN -grs ELSE grs), x.e - 3)

\* the float sum a + b, the float -a and the float difference a - b
F32Add(a, b) ==
  IF a.m = 0 THEN b
  ELSE IF b.m = 0 THEN a
  ELSE IF a.e >= b.e THEN F32AddAligned(a, b) ELSE F32AddAligned(b, a)
F32Neg(a) == [m |-> -a.m, e |-> a.e]
F32Sub(a, b) == F32Add(a, F32Neg(b))

\* the float product of the float a and a float that is the integer k
F32Times(a, k) == F32Round(a.m * k, a.e)

\* a < b for floats
F32Less(a, b) ==
  LET d == F32Sub(a, b) IN d.m < 0

\* StereoConfig's default IPD, the float 0.064f
IPDDefault == [m |-> 8589935, e |-> -27]

\* Run is not in its else branch
NoIdle == [open |-> FALSE, input |-> << >>]

NoIPDKey ==
  [n |-> 0, dir |-> 0, from |-> IPDDefault, shift |-> FALSE, trail |-> << >>,
   matched |-> FALSE, target |-> IPDDefault, run |-> "none", ups |-> 0,
   downs |-> 0, hi |-> IPDDefault, lo |-> IPDDefault]

Euler(y, p, r) == [yaw |-> y, pitch |-> p, roll |-> r]

NoFrame ==
  [n |-> 0, intSampled |-> FALSE, extSampled |-> FALSE, err |-> FALSE,
   s |-> 0, asinCalled |-> FALSE, asinArg |-> 0,
   int |-> Euler(0, 0, 0), ext |-> Euler(0, 0, 0),
   last0 |-> 0, trackDelta |-> 0, extDelta |-> 0,
   lastT |-> 0, pitchT |-> 0, rollT |-> 0,
   padPitch |-> FALSE, viewPitch |-> 0, viewRoll |-> 0,
   calls |-> << >>]

\* Matrix4f's default constructor leaves View the identity; no LookAtRH yet
NoView == [eye |-> <<0, 0, 0>>, at |-> <<0, 0, 0>>, up |-> <<0, 0, 0>>]

NoMotion ==
  [src |-> "none", keys |-> <<FALSE, FALSE, FALSE, FALSE>>, shift |-> FALSE,
   dt |-> 0, yaw |-> 0, gm |-> <<0, 0, 0>>, local |-> <<0, 0, 0>>,
   dir |-> <<0, 0, 0>>, disp |-> <<0, 0, 0>>, pos0 |-> <<0, 0, 0>>]

\* State after OculusRoomTinyApp::OculusRoomTinyApp and the globals' initialisers
Init ==
  /\ pc = "constructed"
  /\ exitCode = 0
  /\ pSensor = FALSE
  /\ tss_isStreaming = FALSE
  /\ tss_packet = <<0, 0, 0, 0>>
  /\ SFusion = Euler(0, 0, 0)
  /\ EyePos = <<0, 16 * (PosDen \div 10), -5 * PosDen>>
  /\ EyeYaw = YawInitial
  /\ EyePitch = 0
  /\ EyeRoll = 0
  /\ LastSensorYaw = 0
  /\ MoveForward = 0 /\ MoveBack = 0 /\ MoveLeft = 0 /\ MoveRight = 0
  /\ GamepadMove = <<0, 0, 0>>
  /\ GamepadRotate = <<0, 0, 0>>
  /\ ShiftDown = FALSE
  /\ ControlDown = FALSE
  /\ Quit = FALSE
  /\ MouseCaptured = TRUE
  /\ pXInputGetState = FALSE
  /\ LastPadPacketNo = 0
  /\ msgQueue = << >>
  /\ idle = NoIdle
  /\ View = NoView
  /\ StereoMode = "Stereo_LeftRight_Multipass"
  /\ PostProcess = "PostProcess_Distortion"
  /\ PostProcessShader = "PostProcessShader_DistortionAndChromAb"
  /\ IPD = IPDDefault
  /\ held = {}
  /\ ipd = NoIPDKey
  /\ nMouse = 0
  /\ mouseYaw = 0
  /\ padYaw = 0
  /\ firstYaw = 0
  /\ hs = [done |-> FALSE, streamOk |-> FALSE, sensorFound |-> FALSE,
           cancel |-> FALSE, windowOk |-> FALSE, renderOk |-> FALSE,
           tries |-> << >>, attempts |-> 0]
  /\ frame = NoFrame
  /\ motion = NoMotion
  /\ poll = [newPacket |-> FALSE, pad |-> <<0, 0, 0, 0>>,
             read |-> FALSE, raw |-> 0, stick |-> 0]
  /\ lastOp = [op |-> "other", pitch0 |-> 0, tracked |-> FALSE, key |-> << >>, dy |-> 0]

\* ------------------------------------------------ quaternion decomposition
\* the test "s < 1.0" that guards asin from above
BelowNorthPoleLE(s) == s <= QOne
BelowNorthPole(s) == s < QOne

\* the test "-1.0 < s" that guards asin from below
AboveSouthPole(s) == -QOne < s

\* the first argument of an atan2 of OnIdle, "2.0f*(a*b + c*d)" or
\* "2.0f*(a*b - c*d)", in units of 1/QOne, the sign of a zero kept; the
\* components of the packet are taken as +0 where they are 0
TwiceSum(a, b, c, d) ==
  FloatMul(FloatOf(2), FloatAdd(FloatMul(FloatOf(a), FloatOf(b)),
                                FloatMul(FloatOf(c), FloatOf(d))))
TwiceDiff(a, b, c, d) ==
  FloatMul(FloatOf(2), FloatSub(FloatMul(FloatOf(a), FloatOf(b)),
                                FloatMul(FloatOf(c), FloatOf(d))))

\* the second argument, "1.0f-2.0f*(a*a + b*b)": never -0
OneLessTwice(a, b) == FloatOf(QOne - 2 * (a * a + b * b))

\* rotator[0..2] of OnIdle for the packet q = <<x, y, z, w>>
Decompose(q) ==
  LET x == q[1]
      y == q[2]
      z == q[3]
      w == q[4]
      s == 2 * (w * y - x * z)
  IN  IF BelowNorthPole(s)
      THEN IF AboveSouthPole(s)
           THEN [yaw   |-> Atan2(TwiceSum(x, y, w, z), OneLessTwice(y, z)),
                 pitch |-> Asin(s),
                 roll  |-> Atan2(TwiceSum(y, z, w, x), OneLessTwice(x, y)),
                 s |-> s, asinCalled |-> TRUE, asinArg |-> s]
           ELSE [yaw   |-> 0,
                 pitch |-> -PI_F_Half,
                 roll  |-> -Atan2(TwiceDiff(x, y, w, z), OneLessTwice(x, z)),
                 s |-> s, asinCalled |-> FALSE, asinArg |-> 0]
      ELSE [yaw   |-> 0,
            pitch |-> PI_F_Half,
            roll  |-> Atan2(TwiceDiff(x, y, w, z), OneLessTwice(x, z)),
            s |-> s, asinCalled |-> FALSE, asinArg |-> 0]

\* ------------------------------------------------------------- pose pieces
\* "EyeYaw += (yaw - LastSensorYaw)"
YawBlendAbsolute(eyeYaw, last, yaw) == yaw
YawBlend(eyeYaw, last, yaw) == eyeYaw + (yaw - last)

\* the clamp of EyePitch to +-maxPitch (OnIdle and OnMouseMove)
ClampPitchNone(p) == p
ClampPitch(p) ==
  LET q == IF p > maxPitch THEN maxPitch ELSE p
  IN  IF q < -maxPitch THEN -maxPitch ELSE q

\* "(Sensitivity * d) / 360.0f" in angle units
MouseAngle(d) == Sensitivity * d * (AngleDen \div 360)

\* "GamepadRotate.<axis> * dt" in angle units
PadAngle(g, dt) == g * dt * (AngleDen \div (PadDen * DtDen))

\* "if (!pSensor)" of OnMouseMove
MousePitchEnabled == ~pSensor

\* "if (!pSensor && !tss_isStreaming)" of OnIdle
PadPitchEnabledNoTss == ~pSensor
PadPitchEnabled == ~pSensor /\ ~tss_isStreaming

Pose(y, p, r, l) == [yaw |-> y, pitch |-> p, roll |-> r, last |-> l]

\* "if (pSensor) { ... }" of OnIdle, applied to the pose st with sample o
SensorStepKeepLast(st, o) ==
  Pose(YawBlend(st.yaw, st.last, o.yaw), o.pitch, o.roll, st.last)
SensorStep(st, o) ==
  Pose(YawBlend(st.yaw, st.last, o.yaw), o.pitch, o.roll, o.yaw)

\* the tail of "if (tss_isStreaming) { ... }" of OnIdle, rot = Decompose(packet)
TssStepKeepLast(st, rot) ==
  Pose(YawBlend(st.yaw, st.last, rot.yaw), rot.pitch, rot.roll, st.last)
TssStep(st, rot) ==
  Pose(YawBlend(st.yaw, st.last, rot.yaw), rot.pitch, rot.roll, rot.yaw)

\* ------------------------------------------------------------------ render
\* the eye passes chosen by "switch(SConfig.GetStereoMode())"
EyePassesRightFirst(mode) ==
  IF mode = "Stereo_None" THEN <<"StereoEye_Center">>
  ELSE <<"StereoEye_Right", "StereoEye_Left">>
EyePasses(mode) ==
  IF mode = "Stereo_None" THEN <<"StereoEye_Center">>
  ELSE <<"StereoEye_Left", "StereoEye_Right">>

\* the pRender/Scene calls of Render(stereo) for one eye, in order; view is
\* the member View that "stereo.ViewAdjust * View" reads
RenderClearLast(eye, post, view) ==
  << <<"BeginScene", post>>, <<"ApplyStereoParams", eye>>,
     <<"SetDepthMode", eye>>, <<"Scene.Render", eye, view>>, <<"Clear", eye>>,
     <<"FinishScene", eye>> >>
Render(eye, post, view) ==
  << <<"BeginScene", post>>, <<"ApplyStereoParams", eye>>, <<"Clear", eye>>,
     <<"SetDepthMode", eye>>, <<"Scene.Render", eye, view>>,
     <<"FinishScene", eye>> >>

RECURSIVE RenderAll(_, _, _)
RenderAll(eyes, post, view) ==
  IF eyes = << >> THEN << >>
  ELSE Render(Head(eyes), post, view) \o RenderAll(Tail(eyes), post, view)

\* ------------------------------------------------------ motion integration
UpVector == <<0, 1, 0>>
ForwardVector == <<0, 0, -1>>
RightVector == <<1, 0, 0>>

\* localMoveVector before Normalize, from the four movement flags
LocalMoveVector(fwd, back, left, right) ==
  LET v == IF fwd # 0 THEN ForwardVector
           ELSE IF back # 0 THEN VNeg(ForwardVector)
           ELSE <<0, 0, 0>>
  IN  IF right # 0 THEN VAdd(v, RightVector)
      ELSE IF left # 0 THEN VAdd(v, VNeg(RightVector))
      ELSE v

\* "MoveSpeed * dt * (ShiftDown ? 3.0f : 1.0f)" in units of 1/DtDen
KeyMoveScaleAlwaysBoost(dt, shift) == MoveSpeed * dt * 3
KeyMoveScale(dt, shift) == MoveSpeed * dt * (IF shift THEN 3 ELSE 1)

\* "MoveSpeed * dt" of the gamepad branch
PadMoveScale(dt, shift) == MoveSpeed * dt

\* the branch of "if (Move...) ... else if (GamepadMove.LengthSq() > 0)"
MoveSourcePadFirst(keys, gm) ==
  IF LengthSq(gm) > 0 THEN "gamepad" ELSE IF keys THEN "keyboard" ELSE "none"
MoveSource(keys, gm) ==
  IF keys THEN "keyboard" ELSE IF LengthSq(gm) > 0 THEN "gamepad" ELSE "none"

\* the EyeYaw that "RotationY(EyeYaw)" of the motion block reads: the one
\* the tracker and gamepad stages of this frame have left
MotionYawStale(before, after) == before
MotionYaw(before, after) == after

\* the motion block of OnIdle; yaw, gm: the EyeYaw and GamepadMove it reads
Motion(yaw, dt, gm) ==
  LET keys  == MoveForward # 0 \/ MoveBack # 0 \/ MoveLeft # 0 \/ MoveRight # 0
      src   == MoveSource(keys, gm)
      yawRotate == RotationY(yaw)
      local == LocalMoveVector(MoveForward, MoveBack, MoveLeft, MoveRight)
      kdir  == VRDiv(Transform(yawRotate, Normalize(local)), TrigDen)
      pdir  == Transform(yawRotate, gm)
  IN  IF src = "keyboard"
      THEN [src |-> src,
            keys |-> <<MoveForward # 0, MoveBack # 0, MoveLeft # 0, MoveRight # 0>>,
            shift |-> ShiftDown, dt |-> dt, yaw |-> yaw, gm |-> gm,
            local |-> local, dir |-> kdir,
            disp |-> VScale(kdir, KeyMoveScale(dt, ShiftDown)), pos0 |-> EyePos]
      ELSE IF src = "gamepad"
      THEN [src |-> src, keys |-> NoMotion.keys,
            shift |-> ShiftDown, dt |-> dt, yaw |-> yaw, gm |-> gm,
            local |-> gm, dir |-> pdir,
            disp |-> VRDiv(VScale(pdir, PadMoveScale(dt, ShiftDown)),
                           PadDen * PadDen),
            pos0 |-> EyePos]
      ELSE [NoMotion EXCEPT !.pos0 = EyePos]

\* ----------------------------------------------------- head model and View
\* eyeCenterInHeadFrame: (0, headBaseToEyeHeight, -headBaseToEyeProtrusion)
\* in units of 1/HeadDen metre
eyeCenterInHeadFrame == <<0, 15, -9>>

\* "RotationY(EyeYaw) * RotationX(EyePitch) * RotationZ(EyeRoll)"
RollPitchYaw(yaw, pitch, roll) ==
  MatMul(MatMul(RotationY(yaw), RotationX(pitch)), RotationZ(roll))

\* shiftedEyePos: EyePos plus the rotated head offset, y brought back down
ShiftedEyePosRaised(pos, rpy) ==
  VAdd(pos, VScale(Transform(rpy, eyeCenterInHeadFrame),
                   PosDen \div (TrigDen * HeadDen)))
ShiftedEyePos(pos, rpy) ==
  LET p == VAdd(pos, VScale(Transform(rpy, eyeCenterInHeadFrame),
                            PosDen \div (TrigDen * HeadDen)))
  IN  <<p[1], p[2] - eyeCenterInHeadFrame[2] * (PosDen \div HeadDen), p[3]>>

\* the arguments of "View = Matrix4f::LookAtRH(shiftedEyePos,
\* shiftedEyePos + forward, up)"; eye and at in position units, up in trig units
LookAtRH(eye, forward, up) ==
  [eye |-> eye, at |-> VAdd(eye, VScale(forward, PosDen \div TrigDen)), up |-> up]

\* up, forward, shiftedEyePos and View from EyePos and rollPitchYaw
HeadView(pos, rpy) ==
  LookAtRH(ShiftedEyePos(pos, rpy), Transform(rpy, ForwardVector),
           Transform(rpy, UpVector))

LookAt(pos, yaw, pitch, roll) == HeadView(pos, RollPitchYaw(yaw, pitch, roll))

\* ------------------------------------------------------------------ OnIdle
\* One frame.  dt: seconds since the last frame; err, q: the outcome of
\* tss_getLatestStreamData (a failed call leaves tss_packet as it was).
OnIdle(gm, gr, dt, err, q) ==
  LET st0  == Pose(EyeYaw, EyePitch, EyeRoll, LastSensorYaw)
      st1  == IF pSensor THEN SensorStep(st0, SFusion) ELSE st0
      pkt  == IF tss_isStreaming /\ ~err THEN q ELSE tss_packet
      rot  == Decompose(pkt)
      st2  == IF tss_isStreaming THEN TssStep(st1, rot) ELSE st1
      st3  == [st2 EXCEPT !.yaw = @ - PadAngle(gr[1], dt)]
      st4  == IF PadPitchEnabled
              THEN [st3 EXCEPT !.pitch = ClampPitch(@ - PadAngle(gr[2], dt))]
              ELSE st3
  IN  /\ tss_packet' = pkt
      /\ motion' = Motion(MotionYaw(EyeYaw, st4.yaw), dt, gm)
      /\ EyePos' = VAdd(EyePos, motion'.disp)
      /\ View' = LookAt(EyePos', st4.yaw, st4.pitch, st4.roll)
      /\ EyeYaw' = st4.yaw
      /\ EyePitch' = st4.pitch
      /\ EyeRoll' = st4.roll
      /\ LastSensorYaw' = st4.last
      /\ padYaw' = padYaw + PadAngle(gr[1], dt)
      /\ firstYaw' = IF frame.n = 0 /\ (pSensor \/ tss_isStreaming)
                     THEN st2.last ELSE firstYaw
      /\ frame' =
           [n |-> frame.n + 1,
            intSampled |-> pSensor, extSampled |-> tss_isStreaming,
            err |-> tss_isStreaming /\ err,
            s |-> IF tss_isStreaming THEN rot.s ELSE 0,
            asinCalled |-> tss_isStreaming /\ rot.asinCalled,
            asinArg |-> IF tss_isStreaming THEN rot.asinArg ELSE 0,
            int |-> IF pSensor THEN SFusion ELSE Euler(0, 0, 0),
            ext |-> IF tss_isStreaming
                    THEN Euler(rot.yaw, rot.pitch, rot.roll)
                    ELSE Euler(0, 0, 0),
            last0 |-> st0.last,
            trackDelta |-> st2.yaw - st0.yaw,
            extDelta |-> st2.yaw - st1.yaw,
            lastT |-> st2.last, pitchT |-> st2.pitch, rollT |-> st2.roll,
            padPitch |-> PadPitchEnabled,
            viewPitch |-> st4.pitch, viewRoll |-> st4.roll,
            calls |-> RenderAll(EyePasses(StereoMode), PostProcess, View')
                        \o << <<"Present", "">>, <<"ForceFlushGPU", "">> >>]

\* -------------------------------------------------------------- thumbsticks
\* "32767 - 9000": GamepadStick's result is in units of 1/StickDen
StickDen == 32767 - 9000
DeadZone == 9000

\* GamepadStick(short in): the numerator v of "v / (32767 - 9000)"
GamepadStick(in) ==
  IF Abs(in) < DeadZone THEN 0
  ELSE IF in > DeadZone THEN in - DeadZone
  ELSE in + DeadZone

\* GamepadStick applied to one raw axis value
ReadStick(in) ==
  /\ ~poll.read
  /\ poll' = [poll EXCEPT !.read = TRUE, !.raw = in, !.stick = GamepadStick(in)]
  /\ UNCHANGED <<EyePos, View, motion, loopVars, pc, exitCode, devVars, tss_packet,
                 SFusion, poseVars, moveVars, padVars, keyVars, MouseCaptured,
                 viewVars, histVars, lastOp>>

\* ---------------------------------------------------------------- handlers
\* GamepadMove and GamepadRotate as OnGamepad sets them
OnGamepad(padLx, padLy, padRx, padRy) ==
  [Move   |-> << padLx * padLx * (IF padLx > 0 THEN 1 ELSE -1), 0,
                 padLy * padLy * (IF padLy > 0 THEN -1 ELSE 1) >>,
   Rotate |-> << 2 * padRx, -2 * padRy, 0 >>]

OnMouseMove(dx, dy) ==
  /\ EyeYaw' = EyeYaw - MouseAngle(dx)
  /\ EyePitch' = IF MousePitchEnabled
                 THEN ClampPitch(EyePitch - MouseAngle(dy))
                 ELSE EyePitch
  /\ UNCHANGED <<EyeRoll, LastSensorYaw>>

\* m | b and m & ~b for a one-bit mask b
SetBit(m, b) == IF (m \div b) % 2 = 1 THEN m ELSE m + b
ClearBitAll(m, b) == 0
ClearBit(m, b) == IF (m \div b) % 2 = 1 THEN m - b ELSE m

\* "flag = down ? (flag | b) : (flag & ~b)"
MoveBit(m, b, down) == IF down THEN SetBit(m, b) ELSE ClearBit(m, b)

MoveKeys == {"W", "S", "A", "D", "VK_UP", "VK_DOWN", "VK_LEFT", "VK_RIGHT"}

Keys == MoveKeys \cup
  {"Q", "VK_ESCAPE", "R", "P", "VK_F1", "VK_F2", "VK_F3", "VK_OEM_PLUS",
   "VK_INSERT", "VK_OEM_MINUS", "VK_DELETE", "VK_SHIFT", "VK_CONTROL", "VK_SPACE"}

\* the float 0.0005f
IPDStepOne == [m |-> 8589935, e |-> -34]

\* "0.0005f * (ShiftDown ? 5.0f : 1.0f)", a float product
IPDStepNoBoost == F32Times(IPDStepOne, 1)
IPDStep == F32Times(IPDStepOne, IF ShiftDown THEN 5 ELSE 1)

\* the IPD key an event is: +1 for a key-down of + / Insert, -1 for a
\* key-down of - / Delete, 0 for anything else
IPDKeyDir(vk, down) ==
  IF vk \in {"VK_OEM_PLUS", "VK_INSERT"} /\ down THEN 1
  ELSE IF vk \in {"VK_OEM_MINUS", "VK_DELETE"} /\ down THEN -1
  ELSE 0

\* PostProcess after the cases VK_F1, VK_F2, VK_F3 (key-down and key-up
\* alike) and after any other key
PostProcessAfterKeyF1Keeps(vk, post) ==
  IF vk = "VK_F2" THEN "PostProcess_None"
  ELSE IF vk = "VK_F3" THEN "PostProcess_Distortion"
  ELSE post
PostProcessAfterKey(vk, post) ==
  IF vk \in {"VK_F1", "VK_F2"} THEN "PostProcess_None"
  ELSE IF vk = "VK_F3" THEN "PostProcess_Distortion"
  ELSE post

\* Quit after the cases 'Q' and VK_ESCAPE; control: ControlDown
QuitAfterKeyAnyQ(vk, down, control, quit) ==
  IF (vk = "Q" /\ down) \/ (vk = "VK_ESCAPE" /\ ~down) THEN TRUE ELSE quit
QuitAfterKey(vk, down, control, quit) ==
  IF \/ (vk = "Q" /\ down /\ control)
     \/ (vk = "VK_ESCAPE" /\ ~down)
  THEN TRUE ELSE quit

\* the key event as the history keeps it: the quit keys only
QuitKey(vk, down) == IF vk \in {"Q", "VK_ESCAPE"} THEN <<vk, down>> ELSE << >>

OnKey(vk, down) ==
  /\ Quit' = QuitAfterKey(vk, down, ControlDown, Quit)
  /\ MoveForward' = IF vk = "W" THEN MoveBit(MoveForward, 1, down)
                    ELSE IF vk = "VK_UP" THEN MoveBit(MoveForward, 2, down)
                    ELSE MoveForward
  /\ MoveBack' = IF vk = "S" THEN MoveBit(MoveBack, 1, down)
                 ELSE IF vk = "VK_DOWN" THEN MoveBit(MoveBack, 2, down)
                 ELSE MoveBack
  /\ MoveLeft' = IF vk = "A" THEN MoveBit(MoveLeft, 1, down) ELSE MoveLeft
  /\ MoveRight' = IF vk = "D" THEN MoveBit(MoveRight, 1, down) ELSE MoveRight
  /\ SFusion' = IF vk = "R" THEN Euler(0, 0, 0) ELSE SFusion
  /\ PostProcessShader' =
       IF vk = "P" /\ down
       THEN (IF PostProcessShader = "PostProcessShader_Distortion"
             THEN "PostProcessShader_DistortionAndChromAb"
             ELSE "PostProcessShader_Distortion")
       ELSE PostProcessShader
  /\ StereoMode' = IF vk = "VK_F1" THEN "Stereo_None"
                   ELSE IF vk \in {"VK_F2", "VK_F3"} THEN "Stereo_LeftRight_Multipass"
                   ELSE StereoMode
  /\ PostProcess' = PostProcessAfterKey(vk, PostProcess)
  /\ IPD' = IF vk \in {"VK_OEM_PLUS", "VK_INSERT"} /\ down THEN F32Add(IPD, IPDStep)
            ELSE IF vk \in {"VK_OEM_MINUS", "VK_DELETE"} /\ down THEN F32Sub(IPD, IPDStep)
            ELSE IPD
  /\ ipd' = LET dir == IPDKeyDir(vk, down)
                shifted == vk = "VK_SHIFT" /\ down # ShiftDown
                trail == IF shifted THEN << >> ELSE ipd.trail
                fresh == dir = 1 /\ trail = << >>
            IN  [n |-> ipd.n + Abs(dir),
                 dir |-> dir, from |-> IPD, shift |-> dir # 0 /\ ShiftDown,
                 trail |-> IF dir = 1 THEN <<IPD>> \o trail
                           ELSE IF dir = -1 /\ trail # << >> THEN Tail(trail)
                           ELSE trail,
                 matched |-> dir = -1 /\ trail # << >>,
                 target |-> IF dir = -1 /\ trail # << >> THEN Head(trail) ELSE IPD,
                 run |-> IF shifted
                         THEN (IF ipd.run = "none" THEN "none" ELSE "mixed")
                         ELSE IF dir = 1
                         THEN (IF ipd.run \in {"none", "up"} THEN "up" ELSE "mixed")
                         ELSE IF dir = -1
                         THEN (IF ipd.run \in {"up", "down"} /\ trail # << >>
                               THEN "down" ELSE "mixed")
                         ELSE ipd.run,
                 ups |-> IF shifted THEN 0
                         ELSE IF dir = 1
                         THEN (IF ipd.downs > 0 THEN 1 ELSE ipd.ups + 1)
                         ELSE ipd.ups,
                 downs |-> IF shifted \/ dir = 1 THEN 0
                           ELSE IF dir = -1 THEN ipd.downs + 1
                           ELSE ipd.downs,
                 hi |-> LET h == IF fresh THEN IPD ELSE ipd.hi
                        IN  IF F32Less(h, IPD') THEN IPD' ELSE h,
                 lo |-> LET l == IF fresh THEN IPD ELSE ipd.lo
                        IN  IF F32Less(IPD', l) THEN IPD' ELSE l]
  /\ ShiftDown' = IF vk = "VK_SHIFT" THEN down ELSE ShiftDown
  /\ ControlDown' = IF vk = "VK_CONTROL" THEN down ELSE ControlDown
  /\ held' = IF vk \in MoveKeys
             THEN (IF down THEN held \cup {vk} ELSE held \ {vk})
             ELSE held

\* ----------------------------------------------------------------- startup
\* attempts of the "while( count < 3)" start-streaming loop
StreamAttempts == 3

\* what one pass of the loop body would meet: the first of
\* tss_setStreamingTiming, tss_setStreamingSlots, tss_startStreaming that
\* returns non-zero, or "ok" when all three return 0
StreamOutcomes == {"timing", "slots", "start", "ok"}

\* the device's answers: "ok" from pass firstOk on ("start" before), never
\* "ok" when firstOk = 0
TriesFirstOk(firstOk) ==
  [i \in 1 .. StreamAttempts + 1 |->
     IF firstOk > 0 /\ i >= firstOk THEN "ok" ELSE "start"]

\* "while( count < 3)" from count on: "tss_isStreaming = true; break;" in
\* the pass whose three calls return 0, "count++" otherwise; attempts is the
\* number of passes made
RECURSIVE StartStreamingFrom(_, _)
StartStreamingFrom(tries, count) ==
  IF count < StreamAttempts
  THEN IF tries[count + 1] = "ok"
       THEN [streaming |-> TRUE, attempts |-> count + 1]
       ELSE StartStreamingFrom(tries, count + 1)
  ELSE [streaming |-> FALSE, attempts |-> count]

\* the loop without its "break"
StartStreamingNoBreak(tries) ==
  [streaming |-> \E i \in 1 .. StreamAttempts : tries[i] = "ok",
   attempts |-> StreamAttempts]

\* tss_isStreaming after "int count = 0; if(!tss_isStreaming) { while ... }"
\* and the passes made; tries[i] is what the i-th pass would meet
StartStreaming(tries) == StartStreamingFrom(tries, 0)

\* pSensor after the detection loop; nothing looks at the external stream
AttachedSensorExclusive(sensor, streaming) == sensor /\ ~streaming
AttachedSensor(sensor, streaming) == sensor

Op(name) == [op |-> "other", pitch0 |-> 0, tracked |-> FALSE, key |-> << >>, dy |-> 0]

\* the value OnStartup returns: 1 from "if (detectionResult == IDCANCEL)",
\* "if (!setupWindow())" and "if (!pRender)", else 0
StartupReturnIgnoreRender(cancel, windowOk, renderOk) ==
  IF cancel \/ ~windowOk THEN 1 ELSE 0
StartupReturnNeverCancel(cancel, windowOk, renderOk) ==
  IF ~windowOk \/ ~renderOk THEN 1 ELSE 0
StartupReturn(cancel, windowOk, renderOk) ==
  IF cancel \/ ~windowOk \/ ~renderOk THEN 1 ELSE 0

\* OnStartup as WinMain calls it.  hmd, sensor, edid, response: the last
\* round of the detection loop; windowOk, renderOk: setupWindow, CreateDevice
OnStartup(tries, hmd, sensor, edid, response, windowOk, renderOk) ==
  LET started   == StartStreaming(tries)
      streaming == started.streaming
      attached  == AttachedSensor(sensor, streaming)
      message   == ~hmd \/ ~attached \/ ~edid
      cancel    == message /\ response = "IDCANCEL"
      ret       == StartupReturn(cancel, windowOk, renderOk)
  IN  /\ pc = "constructed"
      /\ tss_isStreaming' = streaming
      /\ pSensor' = attached
      /\ hs' = [done |-> TRUE,
                streamOk |-> \E i \in 1 .. StreamAttempts : tries[i] = "ok",
                sensorFound |-> sensor,
                cancel |-> cancel, windowOk |-> windowOk, renderOk |-> renderOk,
                tries |-> tries, attempts |-> started.attempts]
      /\ StereoMode' = "Stereo_LeftRight_Multipass"
      /\ exitCode' = ret
      /\ pc' = IF ret = 0 THEN "running" ELSE "stopping"
      /\ lastOp' = Op("OnStartup")
      /\ UNCHANGED <<loopVars, posVars, tss_packet, SFusion, poseVars, moveVars, padVars, keyVars,
                     MouseCaptured, PostProcess, PostProcessShader, IPD, histVars>>

\* ---------------------------------------------------------------- Run loop
Running == pc = "running" /\ ~Quit

\* "PeekMessage(&msg, NULL, 0, 0, PM_REMOVE)": whether a message is there,
\* and the queue once it is retrieved
PeekMessageNever(queue) == FALSE
PeekMessage(queue) == queue # << >>
Retrieved(queue) == IF queue = << >> THEN queue ELSE Tail(queue)

\* WM_MOUSEMOVE while captured, cursor off centre
MsgMouseMove(dx, dy) ==
  /\ Running
  /\ MouseCaptured
  /\ <<dx, dy>> # <<0, 0>>
  /\ nMouse < MaxMouse
  /\ OnMouseMove(dx, dy)
  /\ nMouse' = nMouse + 1
  /\ mouseYaw' = mouseYaw + MouseAngle(dx)
  /\ lastOp' = [op |-> "OnMouseMove", pitch0 |-> EyePitch,
                tracked |-> pSensor \/ tss_isStreaming, key |-> << >>, dy |-> dy]
  /\ msgQueue' = Retrieved(msgQueue)
  /\ UNCHANGED <<idle, posVars, pc, exitCode, devVars, tss_packet, SFusion, moveVars, padVars,
                 keyVars, MouseCaptured, viewVars, padYaw, firstYaw, frame>>

\* WM_KEYDOWN / WM_KEYUP
MsgKey(vk, down) ==
  /\ Running
  /\ OnKey(vk, down)
  /\ lastOp' = [Op("OnKey") EXCEPT !.key = QuitKey(vk, down)]
  /\ msgQueue' = Retrieved(msgQueue)
  /\ UNCHANGED <<idle, posVars, pc, exitCode, devVars, tss_packet, poseVars, padVars,
                 MouseCaptured, histVars>>

\* WM_SETFOCUS / WM_KILLFOCUS: giveUsFocus
MsgFocus(setFocus) ==
  /\ Running
  /\ MouseCaptured' = setFocus
  /\ lastOp' = Op("giveUsFocus")
  /\ msgQueue' = Retrieved(msgQueue)
  /\ UNCHANGED <<idle, posVars, pc, exitCode, devVars, tss_packet, SFusion, poseVars, moveVars,
                 padVars, keyVars, viewVars, histVars>>

\* WM_CLOSE / WM_QUIT
MsgClose ==
  /\ Running
  /\ Quit' = TRUE
  /\ lastOp' = [Op("WM_CLOSE") EXCEPT !.key = <<"WM_CLOSE", TRUE>>]
  /\ msgQueue' = Retrieved(msgQueue)
  /\ UNCHANGED <<idle, posVars, pc, exitCode, devVars, tss_packet, SFusion, poseVars, moveVars,
                 padVars, ShiftDown, ControlDown, held, ipd, MouseCaptured,
                 viewVars, histVars>>

\* OnGamepad called as the class's input handler
CallOnGamepad(padLx, padLy, padRx, padRy) ==
  /\ Running
  /\ GamepadMove' = OnGamepad(padLx, padLy, padRx, padRy).Move
  /\ GamepadRotate' = OnGamepad(padLx, padLy, padRx, padRy).Rotate
  /\ lastOp' = Op("OnGamepad")
  /\ UNCHANGED <<loopVars, posVars, pc, exitCode, devVars, tss_packet, SFusion, poseVars, moveVars,
                 pXInputGetState, LastPadPacketNo, keyVars, MouseCaptured,
                 viewVars, histVars>>

\* The else branch of Run: poll the pad, then OnIdle.  newPacket, pad: what
\* XInputGetState would report.
RunFrame(packetNo, pad, dt, err, q) ==
  LET polled == pXInputGetState /\ packetNo # LastPadPacketNo
      g == IF polled THEN OnGamepad(pad[1], pad[2], pad[3], pad[4])
           ELSE [Move |-> GamepadMove, Rotate |-> GamepadRotate]
  IN  /\ Running
      /\ frame.n < MaxFrames
      /\ GamepadMove' = g.Move
      /\ GamepadRotate' = g.Rotate
      /\ LastPadPacketNo' = IF polled THEN packetNo ELSE LastPadPacketNo
      /\ poll' = [poll EXCEPT !.newPacket = packetNo # LastPadPacketNo, !.pad = pad]
      /\ OnIdle(g.Move, g.Rotate, dt, err, q)
      /\ lastOp' = [op |-> "OnIdle", pitch0 |-> 0, tracked |-> FALSE, key |-> << >>, dy |-> 0]
      /\ idle' = NoIdle
      /\ UNCHANGED <<msgQueue, pc, exitCode, devVars, SFusion, moveVars, pXInputGetState,
                     keyVars, MouseCaptured, viewVars, nMouse, mouseYaw>>

\* the input a frame reads: movement flags, Shift, the gamepad vectors and
\* the stereo configuration
FrameInput ==
  <<MoveForward, MoveBack, MoveLeft, MoveRight, ShiftDown, GamepadMove,
    GamepadRotate, StereoMode, PostProcess>>

\* the system posts message m to the thread's queue
PostMessage(m) ==
  /\ pc = "running"
  /\ Len(msgQueue) < MaxQueue
  /\ msgQueue' = Append(msgQueue, m)
  /\ lastOp' = Op("PostMessage")
  /\ UNCHANGED <<idle, posVars, pc, exitCode, devVars, tss_packet, SFusion, poseVars,
                 moveVars, padVars, keyVars, MouseCaptured, viewVars, histVars>>

\* an iteration of Run whose PeekMessage retrieves a message: DispatchMessage
\* hands it to windowProc
RunDispatch ==
  /\ ~idle.open
  /\ PeekMessage(msgQueue)
  /\ IF Head(msgQueue)[1] = "WM_CLOSE" THEN MsgClose
     ELSE MsgKey(Head(msgQueue)[1], Head(msgQueue)[2])

\* an iteration of Run whose PeekMessage finds nothing: the else branch is
\* entered
RunIdle ==
  /\ Running
  /\ ~idle.open
  /\ ~PeekMessage(msgQueue)
  /\ frame.n < MaxFrames
  /\ idle' = [open |-> TRUE, input |-> FrameInput]
  /\ lastOp' = Op("PeekMessage")
  /\ UNCHANGED <<msgQueue, posVars, pc, exitCode, devVars, tss_packet, SFusion, poseVars,
                 moveVars, padVars, keyVars, MouseCaptured, viewVars, histVars>>

\* a body-frame message reaches SFusion and moves its orientation to o
SensorMessage(o) ==
  /\ pc = "running"
  /\ pSensor
  /\ SFusion' = o
  /\ SFusion' # SFusion
  /\ lastOp' = Op("SensorMessage")
  /\ UNCHANGED <<loopVars, posVars, pc, exitCode, devVars, tss_packet, poseVars, moveVars, padVars,
                 keyVars, MouseCaptured, viewVars, histVars>>

\* Run leaves its loop
RunReturn ==
  /\ pc = "running"
  /\ Quit
  /\ pc' = "stopping"
  /\ exitCode' = 0
  /\ lastOp' = Op("RunReturn")
  /\ UNCHANGED <<loopVars, posVars, devVars, tss_packet, SFusion, poseVars, moveVars, padVars,
                 keyVars, MouseCaptured, viewVars, histVars>>

\* the end of WinMain: the application object leaves its scope, and
\* ~OculusRoomTinyApp releases the sensor ("pSensor.Clear()"); then the
\* stop-streaming loop; stopOk: some attempt succeeds
WinMainStop(stopOk) ==
  /\ pc = "stopping"
  /\ pSensor' = FALSE
  /\ tss_isStreaming' = (tss_isStreaming /\ ~stopOk)
  /\ pc' = "exited"
  /\ lastOp' = Op("WinMainStop")
  /\ UNCHANGED <<loopVars, posVars, exitCode, hs, tss_packet, SFusion, poseVars, moveVars,
                 padVars, keyVars, MouseCaptured, viewVars, histVars>>

\* ------------------------------------------------------------ input ranges
IntSamples == { Euler(0, 0, 0), Euler(4500000, 13950000, -900000) }

\* 120 degrees about (1,1,1) (s = 0); north pole (s = 1); s = 1/2
PoseQuats == { <<1, 1, 1, 1>>, <<1, 1, -1, 1>>, <<1, 1, 0, 1>> }

QGrid == (-QDen) .. QDen
AllQuats == QGrid \X QGrid \X QGrid \X QGrid

MouseDeltas == { <<5, 2>>, <<-3, 600>> }
PosePads == { <<0, 0, 0, 0>>, <<0, 0, 2, 4>> }
FrameDts == { 1000 }

\* ---------------------------------------------------------- specifications
\* the camera pose under frames, mouse, gamepad, tracker samples and tares
Startup ==
  \E firstOk \in {0, 1}, hmd, sensor, edid, windowOk, renderOk \in BOOLEAN,
     response \in {"IDCONTINUE", "IDCANCEL"} :
       OnStartup(TriesFirstOk(firstOk), hmd, sensor, edid, response, windowOk, renderOk)
Frames == \E dt \in FrameDts, err \in BOOLEAN, q \in PoseQuats :
            RunFrame(1, <<0, 0, 0, 0>>, dt, err, q)
Mouse == \E d \in MouseDeltas : MsgMouseMove(d[1], d[2])
Pad == \E pad \in PosePads : CallOnGamepad(pad[1], pad[2], pad[3], pad[4])
Tare == \E down \in BOOLEAN : MsgKey("R", down)
Sensor == \E o \in IntSamples : SensorMessage(o)
Focus == \E f \in BOOLEAN : MsgFocus(f)
Stop == \E ok \in BOOLEAN : WinMainStop(ok)

Next ==
  \/ Startup \/ Frames \/ Mouse \/ Pad \/ Tare \/ Sensor \/ Stop

Spec == Init /\ [][Next]_vars

\* the decomposition of every grid quaternion, in the first frame of a run
DecomposeFrames == \E q \in AllQuats :
                     frame.n = 0 /\ RunFrame(1, <<0, 0, 0, 0>>, 10, FALSE, q)

NextDecomp == Startup \/ DecomposeFrames \/ Stop

SpecDecomp == Init /\ [][NextDecomp]_vars

\* the movement, modifier and quit keys
MoveSpecKeys == MoveKeys \cup {"VK_SHIFT", "VK_CONTROL", "Q", "VK_ESCAPE", "VK_SPACE"}
MovementKeys == \E vk \in MoveSpecKeys, down \in BOOLEAN : MsgKey(vk, down)

NextKeys == Startup \/ MovementKeys \/ MsgClose \/ RunReturn \/ Stop

SpecKeys == Init /\ [][NextKeys]_vars

\* keyboard and gamepad motion: movement keys, Shift, the gamepad handler,
\* one mouse move and the frames that integrate them, up to the
\* MaxMoveFrames-th frame of a run
MoveDts == { 1000 }
MotionKeys == {"W", "S", "A", "D", "VK_SHIFT"}
MovePads == { <<0, 0, 0, 0>>, <<2, -4, 2, 0>> }
\* windowProc builds the cursor position from LOWORD(lp), HIWORD(lp), which
\* are unsigned, so with the 1280x800 window dx >= -640 and dy >= -400; the
\* second move has the cursor 600 pixels below the centre and reaches the
\* pitch clamp at -maxPitch
MoveMouse == { <<-565, 100>>, <<-565, 600>> }
MoveQuats == { <<1, 1, 0, 1>> }

StartupMove ==
  \E firstOk \in {0, 1}, sensor \in BOOLEAN, response \in {"IDCONTINUE", "IDCANCEL"} :
     OnStartup(TriesFirstOk(firstOk), FALSE, sensor, FALSE, response, TRUE, TRUE)
MoveKeyMsgs == \E vk \in MotionKeys, down \in BOOLEAN :
                 frame.n < MaxMoveFrames /\ MsgKey(vk, down)
MovePadMsgs == \E pad \in MovePads :
                 frame.n < MaxMoveFrames
                   /\ CallOnGamepad(pad[1], pad[2], pad[3], pad[4])
MoveMouseMsgs == \E d \in MoveMouse :
                   frame.n < MaxMoveFrames /\ MsgMouseMove(d[1], d[2])
MoveFrames == \E dt \in MoveDts, q \in MoveQuats :
                frame.n < MaxMoveFrames
                  /\ RunFrame(1, <<0, 0, 0, 0>>, dt, FALSE, q)

NextMove ==
  \/ StartupMove \/ MoveKeyMsgs \/ MovePadMsgs \/ MoveMouseMsgs \/ MoveFrames
  \/ Stop

SpecMove == Init /\ [][NextMove]_vars

\* rendering: the stereo presets, the shader key, Shift and a key without
\* a case, mouse moves and frames in which a connected pad reports a packet
ViewKeys == {"VK_F1", "VK_F2", "VK_F3", "P", "VK_SHIFT", "VK_SPACE"}
PadPackets == { 0, 1 }
ViewKeyMsgs == \E vk \in ViewKeys, down \in BOOLEAN : MsgKey(vk, down)
ViewFrames == \E q \in MoveQuats, packetNo \in PadPackets, pad \in PosePads :
                RunFrame(packetNo, pad, 1000, FALSE, q)

NextView == Startup \/ ViewKeyMsgs \/ Mouse \/ ViewFrames \/ Stop

SpecView == Init /\ [][NextView]_vars

\* the IPD hotkeys with and without Shift, a key that is not an IPD
\* hotkey, and a frame: up to MaxIPDPresses presses in any order with the
\* other key events and the frame between them, and beyond that the runs
\* of up to MaxIPDRun + presses followed by - presses
IPDKeys == {"VK_OEM_PLUS", "VK_INSERT", "VK_OEM_MINUS", "VK_DELETE", "VK_SHIFT",
            "VK_SPACE"}
StartupIPD == OnStartup(TriesFirstOk(0), FALSE, FALSE, FALSE, "IDCONTINUE", TRUE, TRUE)
IPDKeyMsgs ==
  \E vk \in IPDKeys, down \in BOOLEAN :
     /\ MsgKey(vk, down)
     /\ \/ ipd'.n <= MaxIPDPresses
        \/ /\ ipd'.dir # 0
           /\ ipd'.run \in {"up", "down"}
           /\ ipd'.n + Len(ipd'.trail) <= 2 * MaxIPDRun
IPDFrames == ipd.n <= MaxIPDPresses /\ MoveFrames

NextIPD == StartupIPD \/ IPDKeyMsgs \/ IPDFrames

SpecIPD == Init /\ [][NextIPD]_vars

\* quitting: the quit keys, Control, a movement key, WM_CLOSE and frames
QuitKeys == {"Q", "VK_ESCAPE", "VK_CONTROL", "W"}
QuitKeyMsgs == \E vk \in QuitKeys, down \in BOOLEAN : MsgKey(vk, down)
QuitFrames == \E q \in MoveQuats : RunFrame(1, <<0, 0, 0, 0>>, 1000, FALSE, q)

NextQuit ==
  \/ StartupMove \/ QuitKeyMsgs \/ MsgClose \/ QuitFrames \/ RunReturn \/ Stop

SpecQuit == Init /\ [][NextQuit]_vars

\* the Run loop with its message queue: messages are posted at any time,
\* also while a frame is being processed
LoopMsgs == { <<"W", TRUE>>, <<"W", FALSE>>, <<"VK_SHIFT", TRUE>>,
              <<"VK_F1", TRUE>>, <<"WM_CLOSE", TRUE>> }
LoopPost == \E m \in LoopMsgs : PostMessage(m)
LoopFrame == \E q \in MoveQuats :
               idle.open /\ RunFrame(1, <<0, 0, 0, 0>>, 1000, FALSE, q)

NextLoop ==
  \/ StartupIPD \/ LoopPost \/ RunDispatch \/ RunIdle \/ LoopFrame
  \/ RunReturn \/ Stop

SpecLoop == Init /\ [][NextLoop]_vars

\* GamepadStick on every value of a short
Shorts == -32768 .. 32767
Sticks == ~poll.read /\ \E in \in Shorts : ReadStick(in)

SpecStick == Init /\ [][Sticks]_vars

\* the start-streaming loop under every answer of the device to four passes,
\* and the frames, quit and stop-streaming that follow
StreamTries == [1 .. StreamAttempts + 1 -> StreamOutcomes]
StartupStream ==
  \E tries \in StreamTries, response \in {"IDCONTINUE", "IDCANCEL"} :
     OnStartup(tries, FALSE, FALSE, FALSE, response, TRUE, TRUE)
StreamFrames == \E err \in BOOLEAN, q \in MoveQuats :
                  RunFrame(1, <<0, 0, 0, 0>>, 1000, err, q)

NextStream == StartupStream \/ StreamFrames \/ MsgClose \/ RunReturn \/ Stop

SpecStream == Init /\ [][NextStream]_vars

\* ------------------------------------------------------------------ claims
Tracked == pSensor \/ tss_isStreaming

\* C1: the tracker's yaw enters EyeYaw only as a frame-to-frame delta:
\* EyeYaw - LastSensorYaw always equals YawInitial minus the accumulated
\* mouse yaw minus the accumulated gamepad yaw, whatever the tracker
\* samples (tares included) and whether or not a tracker is connected.
C1_YawOnlyDelta ==
  EyeYaw - LastSensorYaw = YawInitial - mouseYaw - padYaw

\* a tare (tracked yaw back at 0 after a non-zero first reading) with mouse
\* and gamepad yaw accumulated
C1_Witness ==
  /\ Tracked /\ frame.n >= 2
  /\ firstYaw # 0 /\ LastSensorYaw = 0
  /\ mouseYaw # 0 /\ padYaw # 0

\* three frames from the constructed state, tracker active, no mouse input
\* and no gamepad rotation
ThreeQuietFrames ==
  /\ Tracked /\ pc = "running"
  /\ frame.n = 3 /\ lastOp.op = "OnIdle"
  /\ nMouse = 0 /\ padYaw = 0

\* C2 as stated: after frames reading y0, y1, y2 EyeYaw is its initial
\* value plus (y2 - y0).
C2_Original ==
  ThreeQuietFrames => EyeYaw = YawInitial + (frame.lastT - firstYaw)

\* C2 amended: after frames reading y0, y1, y2 EyeYaw is its initial value
\* plus (y2 - 0), 0 being the constructor's LastSensorYaw: independent of
\* y0 and y1, and equal to initial + (y2 - y0) only when y0 = 0.
C2_Amended ==
  ThreeQuietFrames => EyeYaw = YawInitial + frame.lastT

C2_Witness ==
  ThreeQuietFrames /\ firstYaw # 0 /\ frame.lastT # 0 /\ frame.lastT # firstYaw

\* C4: in a frame whose external sample has s = 1 exactly, EyePitch
\* becomes pi/2, asin is not called and the external tracker's step adds
\* nothing to EyeYaw.
C4_NorthPoleNoYawJump ==
  (frame.n > 0 /\ frame.extSampled /\ ~frame.err /\ frame.s = QOne)
    => /\ frame.pitchT = PI_F_Half
       /\ ~frame.asinCalled
       /\ frame.extDelta = 0

\* C5: while Run is going with no tracker connected, EyePitch is within
\* +-maxPitch and EyeRoll is 0.
C5_ManualPitchClamped ==
  (pc = "running" /\ ~Tracked)
    => /\ -maxPitch <= EyePitch /\ EyePitch <= maxPitch
       /\ EyeRoll = 0

\* the clamp has engaged in a frame, after mouse input
C5_Witness ==
  /\ pc = "running" /\ ~Tracked
  /\ lastOp.op = "OnIdle" /\ nMouse > 0
  /\ EyePitch = maxPitch

\* C6: where the frame builds the view, EyePitch and EyeRoll are those of
\* the frame's tracker orientation when a tracker is connected (the
\* external one when it streams, else the internal one), and gamepad pitch
\* is applied only in frames without a tracker.
C6_TrackerOwnsPitchRoll ==
  frame.n > 0 =>
    /\ frame.extSampled =>
         frame.viewPitch = frame.ext.pitch /\ frame.viewRoll = frame.ext.roll
    /\ (frame.intSampled /\ ~frame.extSampled) =>
         frame.viewPitch = frame.int.pitch /\ frame.viewRoll = frame.int.roll
    /\ frame.padPitch => (~frame.intSampled /\ ~frame.extSampled)

\* a frame with only the external tracker, after a mouse move and with the
\* gamepad's pitch axis deflected
C6_Witness ==
  /\ lastOp.op = "OnIdle" /\ nMouse > 0
  /\ frame.extSampled /\ ~frame.intSampled
  /\ GamepadRotate[2] # 0
  /\ frame.viewPitch # 0

\* C7: with a tracker connected OnMouseMove leaves EyePitch unchanged.
C7_MouseIgnoresPitch ==
  (lastOp.op = "OnMouseMove" /\ lastOp.tracked) => EyePitch = lastOp.pitch0

\* C8 as stated: while Run is going at most one source is active, and no
\* frame samples both.
C8_Original ==
  /\ pc = "running" => ~(pSensor /\ tss_isStreaming)
  /\ ~(frame.intSampled /\ frame.extSampled)

\* C8 amended: each source is active after OnStartup exactly when its own
\* handshake succeeded, whatever the other did (nothing resolves a double
\* connection), and every frame samples exactly the active sources.
C8_Amended ==
  pc = "running" =>
    /\ pSensor = hs.sensorFound
    /\ tss_isStreaming = hs.streamOk
    /\ frame.n > 0 => /\ frame.intSampled = hs.sensorFound
                      /\ frame.extSampled = hs.streamOk

C8_Witness ==
  /\ pc = "running" /\ hs.sensorFound /\ hs.streamOk
  /\ frame.n > 0 /\ frame.intSampled /\ frame.extSampled

\* C9: in a frame that samples both trackers, after the tracker steps
\* EyePitch, EyeRoll and LastSensorYaw are the external tracker's and
\* EyeYaw has changed by (external yaw - LastSensorYaw before the frame).
C9_ExternalPrecedence ==
  (frame.n > 0 /\ frame.intSampled /\ frame.extSampled)
    => /\ frame.pitchT = frame.ext.pitch
       /\ frame.rollT = frame.ext.roll
       /\ frame.lastT = frame.ext.yaw
       /\ frame.trackDelta = frame.ext.yaw - frame.last0

C9_Witness ==
  /\ frame.n > 0 /\ frame.intSampled /\ frame.extSampled
  /\ frame.int.yaw # 0 /\ frame.int.yaw # frame.ext.yaw
  /\ frame.int.yaw # frame.last0 /\ frame.last0 # 0
  /\ frame.int.pitch # frame.ext.pitch

\* C3: in the external tracker's decomposition asin is called exactly when
\* -1 < s < 1, with that s; for s >= 1 the result is yaw 0, pitch +pi/2 and
\* for s <= -1 yaw 0, pitch -pi/2, asin not being called in either case.
C3_AsinGuarded ==
  (frame.n > 0 /\ frame.extSampled) =>
    /\ frame.asinCalled <=> (-QOne < frame.s /\ frame.s < QOne)
    /\ frame.asinCalled => frame.asinArg = frame.s
    /\ frame.s >= QOne =>
         frame.ext.yaw = 0 /\ frame.ext.pitch = PI_F_Half /\ ~frame.asinCalled
    /\ frame.s <= -QOne =>
         frame.ext.yaw = 0 /\ frame.ext.pitch = -PI_F_Half /\ ~frame.asinCalled

\* a sample beyond the south pole whose roll is not 0
C3_Witness ==
  /\ frame.n > 0 /\ frame.extSampled
  /\ frame.s < -QOne
  /\ frame.ext.pitch = -PI_F_Half /\ frame.ext.roll # 0

Bit(b, on) == IF on THEN b ELSE 0

\* C10 as stated: each movement flag is non-zero exactly when the WASD key
\* or the arrow key of its direction is held.
C10_Original ==
  /\ MoveForward # 0 <=> ("W" \in held \/ "VK_UP" \in held)
  /\ MoveBack # 0 <=> ("S" \in held \/ "VK_DOWN" \in held)
  /\ MoveLeft # 0 <=> ("A" \in held \/ "VK_LEFT" \in held)
  /\ MoveRight # 0 <=> ("D" \in held \/ "VK_RIGHT" \in held)

\* C10 amended: forward and back are 2-bit masks, bit 1 for W / S and bit 2
\* for the up / down arrow; left and right have the single bit of A / D,
\* and the left and right arrow keys change no flag.
C10_Amended ==
  /\ MoveForward = Bit(1, "W" \in held) + Bit(2, "VK_UP" \in held)
  /\ MoveBack = Bit(1, "S" \in held) + Bit(2, "VK_DOWN" \in held)
  /\ MoveLeft = Bit(1, "A" \in held)
  /\ MoveRight = Bit(1, "D" \in held)

C10_Witness ==
  /\ pc = "running"
  /\ MoveForward = 2 /\ "W" \notin held
  /\ MoveBack = 3
  /\ MoveLeft = 0 /\ "VK_LEFT" \in held
  /\ MoveRight = 1

\* the local direction the flags choose: forward over back, right over left
ChosenLocal(k) ==
  << IF k[4] THEN 1 ELSE IF k[3] THEN -1 ELSE 0,
     0,
     IF k[1] THEN -1 ELSE IF k[2] THEN 1 ELSE 0 >>

\* C11: in a frame with some movement flag set the local direction is the
\* one the flags choose and is not zero; the direction used is that local
\* direction turned about Y by EyeYaw alone, of length 1 (to one part in a
\* thousand, diagonal or not); the displacement added to EyePos is that
\* direction times MoveSpeed*dt*(3 with Shift, else 1); EyePitch and
\* EyeRoll do not enter.
C11_KeyboardDisplacement ==
  (lastOp.op = "OnIdle" /\ motion.src = "keyboard") =>
    LET l  == ChosenLocal(motion.keys)
        t  == << Cos(EyeYaw) * l[1] + Sin(EyeYaw) * l[3], 0,
                 Cos(EyeYaw) * l[3] - Sin(EyeYaw) * l[1] >>
        d  == motion.dir
    IN  /\ motion.keys = <<MoveForward # 0, MoveBack # 0, MoveLeft # 0, MoveRight # 0>>
        /\ motion.local = l /\ l # <<0, 0, 0>>
        /\ d[2] = 0
        /\ Abs(LengthSq(d) - TrigDen * TrigDen) <= (TrigDen * TrigDen) \div 500
        /\ Abs(RDiv(d[1] * t[3] - d[3] * t[1], TrigDen)) <= TrigDen \div 500
        /\ d[1] * t[1] + d[3] * t[3] > 0
        /\ EyePos = VAdd(motion.pos0,
                         VScale(d, MoveSpeed * motion.dt * (IF ShiftDown THEN 3 ELSE 1)))

\* forward and right together, Shift held, the view pitched and rolled by
\* the tracker and the yaw turned by the mouse
C11_Witness ==
  /\ lastOp.op = "OnIdle" /\ motion.src = "keyboard"
  /\ motion.keys = <<TRUE, FALSE, FALSE, TRUE>> /\ ShiftDown
  /\ EyeRoll # 0 /\ nMouse > 0
  /\ motion.dir[1] # 0 /\ motion.dir[3] # 0

\* C12: a frame uses one displacement source.  With a movement flag set it
\* is the keyboard's (a unit direction times the keyboard scale, whatever
\* GamepadMove is); otherwise with GamepadMove not zero EyePos moves by
\* GamepadMove turned about Y by EyeYaw times MoveSpeed*dt, Shift or not;
\* otherwise EyePos stays.
C12_OneSource ==
  lastOp.op = "OnIdle" =>
    LET keys == MoveForward # 0 \/ MoveBack # 0 \/ MoveLeft # 0 \/ MoveRight # 0
        gm   == GamepadMove
        rot  == << Cos(EyeYaw) * gm[1] + Sin(EyeYaw) * gm[3], 0,
                   Cos(EyeYaw) * gm[3] - Sin(EyeYaw) * gm[1] >>
        delta == VAdd(EyePos, VNeg(motion.pos0))
    IN  /\ keys =>
              /\ motion.src = "keyboard"
              /\ delta = VScale(motion.dir,
                                MoveSpeed * motion.dt * (IF ShiftDown THEN 3 ELSE 1))
              /\ Abs(LengthSq(motion.dir) - TrigDen * TrigDen)
                    <= (TrigDen * TrigDen) \div 500
        /\ (~keys /\ gm # <<0, 0, 0>>) =>
              /\ motion.src = "gamepad"
              /\ delta = VRDiv(VScale(rot, MoveSpeed * motion.dt), PadDen * PadDen)
        /\ (~keys /\ gm = <<0, 0, 0>>) =>
              motion.src = "none" /\ delta = <<0, 0, 0>>

\* a keyboard frame with the stick deflected as well
C12_Witness ==
  /\ lastOp.op = "OnIdle" /\ motion.src = "keyboard"
  /\ GamepadMove # <<0, 0, 0>> /\ EyePos # motion.pos0

\* the first frame of a run with no tracker, no mouse move, the gamepad at
\* rest, only forward held, no Shift, dt = 1 s
ForwardOneSecond ==
  /\ lastOp.op = "OnIdle" /\ frame.n = 1
  /\ ~frame.intSampled /\ ~frame.extSampled
  /\ nMouse = 0 /\ GamepadMove = <<0, 0, 0>> /\ GamepadRotate = <<0, 0, 0>>
  /\ motion.keys = <<TRUE, FALSE, FALSE, FALSE>> /\ ~ShiftDown
  /\ motion.dt = DtDen

\* C15: that frame moves EyePos from (0, 1.6, -5) by 3.0 along +Z, x and y
\* as they were, and leaves EyePitch = 0 and EyeRoll = 0.
C15_ForwardOneSecondMovesPlusZ ==
  ForwardOneSecond =>
    /\ EyePos = <<0, 16 * (PosDen \div 10), -5 * PosDen + 3 * PosDen>>
    /\ EyePitch = 0 /\ EyeRoll = 0

C15_Witness == ForwardOneSecond /\ EyeYaw = YawInitial

IsSceneRender(c) == c[1] = "Scene.Render"

\* C13: the eye passes of a frame are fixed by the stereo mode at that
\* point: Left then Right for Stereo_LeftRight_Multipass, Center alone for
\* Stereo_None, and every pass renders with the View the frame built.
C13_EyePassesByMode ==
  lastOp.op = "OnIdle" =>
    LET passes == SelectSeq(frame.calls, IsSceneRender)
    IN  /\ StereoMode \in {"Stereo_None", "Stereo_LeftRight_Multipass"}
        /\ StereoMode = "Stereo_LeftRight_Multipass" =>
              /\ Len(passes) = 2
              /\ passes[1][2] = "StereoEye_Left"
              /\ passes[2][2] = "StereoEye_Right"
        /\ StereoMode = "Stereo_None" =>
              Len(passes) = 1 /\ passes[1][2] = "StereoEye_Center"
        /\ \A i \in 1 .. Len(passes) : passes[i][3] = View

\* a Stereo_None frame after a stereo frame and a mouse move
C13_Witness ==
  /\ lastOp.op = "OnIdle" /\ StereoMode = "Stereo_None"
  /\ frame.n >= 2 /\ nMouse > 0

IsListedCall(c) == c[1] # "SetDepthMode"

\* the listed backend calls of one eye pass
BackendPass(eye) ==
  << <<"BeginScene", PostProcess>>, <<"ApplyStereoParams", eye>>, <<"Clear", eye>>,
     <<"Scene.Render", eye, View>>, <<"FinishScene", eye>> >>

\* C14: the backend calls of a frame are, pass after pass, BeginScene with
\* the current PostProcess, ApplyStereoParams, Clear, Scene.Render,
\* FinishScene, and after the last pass Present and then ForceFlushGPU,
\* once each (SetDepthMode, between Clear and Scene.Render, is not among
\* the listed calls).
C14_BackendOrder ==
  lastOp.op = "OnIdle" =>
    SelectSeq(frame.calls, IsListedCall) =
      (IF StereoMode = "Stereo_None"
       THEN BackendPass("StereoEye_Center")
       ELSE BackendPass("StereoEye_Left") \o BackendPass("StereoEye_Right"))
        \o << <<"Present", "">>, <<"ForceFlushGPU", "">> >>

\* a two-pass frame without post-processing (F2)
C14_Witness ==
  /\ lastOp.op = "OnIdle" /\ StereoMode = "Stereo_LeftRight_Multipass"
  /\ PostProcess = "PostProcess_None" /\ frame.n >= 2
  /\ Len(frame.calls) = 14

\* C16: in a frame whose tss_getLatestStreamData call fails, the external
\* tracker's step leaves EyeYaw, EyePitch, EyeRoll and LastSensorYaw as
\* they were immediately before it (after the internal tracker's step, if
\* there is one), and the frame is rendered.
C16_FailedSampleKeepsPose ==
  [][(lastOp'.op = "OnIdle" /\ frame'.n = frame.n + 1 /\ frame'.err) =>
       /\ frame'.extDelta = 0
       /\ frame'.pitchT = (IF pSensor THEN SFusion.pitch ELSE EyePitch)
       /\ frame'.rollT = (IF pSensor THEN SFusion.roll ELSE EyeRoll)
       /\ frame'.lastT = (IF pSensor THEN SFusion.yaw ELSE LastSensorYaw)
       /\ frame'.calls # << >>]_vars

\* C17: when setupWindow or CreateDevice fails OnStartup returns non-zero,
\* Run is not entered (no frame is processed) and WinMain's exit code is
\* that non-zero value.
C17_RenderFailureIsFatal ==
  (hs.done /\ (~hs.windowOk \/ ~hs.renderOk)) =>
    /\ exitCode # 0
    /\ pc \in {"stopping", "exited"}
    /\ frame.n = 0

\* the process has exited after CreateDevice failed with a window, a
\* started stream and no Cancel
C17_Witness ==
  /\ pc = "exited" /\ exitCode = 1
  /\ hs.windowOk /\ ~hs.renderOk /\ ~hs.cancel /\ hs.streamOk

\* C18 as stated: whatever the handshakes gave and whatever the user
\* answered, with the window and the render device created OnStartup
\* returns 0 and the frame loop runs.
C18_Original ==
  (hs.done /\ hs.windowOk /\ hs.renderOk) => (exitCode = 0 /\ pc = "running")

\* C18 amended: with the window and the render device created, OnStartup
\* returns 0 and the frame loop runs for every handshake outcome unless
\* the user answers Cancel to the detection dialog; then it returns 1 and
\* no frame is processed.
C18_Amended ==
  (hs.done /\ hs.windowOk /\ hs.renderOk) =>
    IF hs.cancel
    THEN exitCode = 1 /\ pc \in {"stopping", "exited"} /\ frame.n = 0
    ELSE exitCode = 0 /\ pc = "running"

\* both handshakes failed, the user continued and a frame has run
C18_Witness ==
  /\ hs.done /\ ~hs.streamOk /\ ~hs.sensorFound /\ ~hs.cancel
  /\ pc = "running" /\ frame.n > 0 /\ ~Tracked

\* C19 as stated: only OnIdle writes EyePos, EyeYaw, EyePitch, EyeRoll.
C19_Original ==
  [][lastOp'.op # "OnIdle" => UNCHANGED <<EyePos, EyeYaw, EyePitch, EyeRoll>>]_vars

\* C19 amended: OnKey, OnGamepad and the other messages leave the four
\* fields unchanged; OnMouseMove leaves EyePos and EyeRoll unchanged,
\* subtracts Sensitivity*dx/360 from EyeYaw and, only without a Rift
\* sensor, Sensitivity*dy/360 from EyePitch, clamped to +-maxPitch; with
\* the sensor attached it leaves EyePitch as it was.  In OnIdle EyeYaw
\* receives the tracker delta and the gamepad rotation first, the motion
\* block then reads that EyeYaw and adds its displacement to EyePos, and
\* the head model builds View from the resulting pose without changing it.
MousePitchWritten ==
  LET p == EyePitch - Sensitivity * lastOp'.dy * (AngleDen \div 360)
  IN  IF p > maxPitch THEN maxPitch ELSE IF p < -maxPitch THEN -maxPitch ELSE p
C19_Amended ==
  [][/\ lastOp'.op = "other" => UNCHANGED <<EyePos, EyeYaw, EyePitch, EyeRoll>>
     /\ lastOp'.op = "OnMouseMove" =>
          /\ UNCHANGED <<EyePos, EyeRoll>>
          /\ EyeYaw' = EyeYaw - (mouseYaw' - mouseYaw)
          /\ pSensor => EyePitch' = EyePitch
          /\ ~pSensor => EyePitch' = MousePitchWritten
     /\ (lastOp'.op = "OnIdle" /\ frame'.n = frame.n + 1) =>
          /\ EyeYaw' = EyeYaw + frame'.trackDelta - (padYaw' - padYaw)
          /\ motion'.pos0 = EyePos
          /\ EyePos' = VAdd(EyePos, motion'.disp)
          /\ motion'.src # "none" => motion'.yaw = EyeYaw'
          /\ View'.eye = ShiftedEyePos(EyePos',
                            RollPitchYaw(EyeYaw', EyePitch', EyeRoll'))]_vars

\* a mouse move has written EyeYaw and EyePitch with a movement key held
\* and the stick deflected, no Rift sensor attached
C19_Witness ==
  /\ lastOp.op = "OnMouseMove" /\ EyePitch # lastOp.pitch0
  /\ ~pSensor /\ lastOp.dy # 0
  /\ EyeYaw # YawInitial
  /\ MoveForward # 0 /\ GamepadMove # <<0, 0, 0>>

\* a mouse move with the Rift sensor attached has written EyeYaw and left
\* EyePitch as it was
C19_WitnessSensor ==
  /\ lastOp.op = "OnMouseMove" /\ pSensor /\ lastOp.dy # 0
  /\ EyePitch = lastOp.pitch0
  /\ EyeYaw # YawInitial

\* C20: in a frame for which the pad reports a packet number other than
\* the last one seen, GamepadMove and GamepadRotate are those OnGamepad
\* computes from the reported sticks, and the packet number is remembered.
C20_PadPolledEachFrame ==
  (lastOp.op = "OnIdle" /\ poll.newPacket) =>
    LET g == OnGamepad(poll.pad[1], poll.pad[2], poll.pad[3], poll.pad[4])
    IN  GamepadMove = g.Move /\ GamepadRotate = g.Rotate

\* the height, in position units, that the head model adds to EyePos.y:
\* the y of the offset (0, 0.15, -0.09) turned by pitch and roll, less 0.15
HeadLift(pitch, roll) ==
  ( eyeCenterInHeadFrame[2] * RDiv(Cos(pitch) * Cos(roll), TrigDen)
    - eyeCenterInHeadFrame[3] * Sin(pitch)
    - eyeCenterInHeadFrame[2] * TrigDen ) * (PosDen \div (TrigDen * HeadDen))

\* C21 as stated: for every yaw, pitch and roll the y of the shifted eye
\* position a frame uses equals EyePos.y, and the head model leaves EyePos
\* as the motion block left it.
C21_Original ==
  lastOp.op = "OnIdle" =>
    /\ View.eye[2] = EyePos[2]
    /\ EyePos = VAdd(motion.pos0, motion.disp)

\* C21 amended: the shifted eye position is EyePos plus the offset (0.15
\* up, 0.09 forward) turned by yaw, pitch and roll, with the constant 0.15
\* taken off its y: its y is EyePos.y + 0.15*cos(pitch)*cos(roll)
\* + 0.09*sin(pitch) - 0.15 whatever the yaw, which is EyePos.y when pitch
\* and roll are 0 and differs from it otherwise; the head model leaves
\* EyePos as the motion block left it, so the offset does not accumulate.
C21_Amended ==
  lastOp.op = "OnIdle" =>
    /\ View.eye[2] = EyePos[2] + HeadLift(EyePitch, EyeRoll)
    /\ (EyePitch = 0 /\ EyeRoll = 0) => View.eye[2] = EyePos[2]
    /\ EyePos = VAdd(motion.pos0, motion.disp)
    /\ EyePos[2] = 16 * (PosDen \div 10)

\* a second or later frame of a run with the head pitched and rolled, the
\* eye off the pivot height, after a mouse move has turned the yaw
C21_Witness ==
  /\ lastOp.op = "OnIdle" /\ frame.n >= 2 /\ nMouse > 0
  /\ EyePitch # 0 /\ EyeRoll # 0
  /\ View.eye[2] # EyePos[2]
  /\ View.eye[1] # EyePos[1]

\* the float a in units of 2^g, g <= a.e
F32Units(a, g) == IF a.m = 0 THEN 0 ELSE a.m * Pow2(a.e - g)

\* the last key event was an IPD hotkey's key-down, and the IPD moved by
\* the step (five steps with Shift) to within half the spacing of the floats
\* at the new IPD; or it was any other key event, and the IPD is as it was
IPDStepped ==
  LET step == F32Times(IPDStepOne, IF ipd.shift THEN 5 ELSE 1)
      g    == IF IPD.e < ipd.from.e THEN IPD.e ELSE ipd.from.e
      u    == IF g < step.e THEN g ELSE step.e
      moved == F32Units(IPD, g) - F32Units(ipd.from, g)
  IN  /\ ipd.dir # 0 =>
           2 * Abs(moved * Pow2(g - u) - ipd.dir * step.m * Pow2(step.e - u))
             <= Pow2(IPD.e - u)
      /\ ipd.dir = 0 => IPD = ipd.from

\* C22 as stated: key-down of + / Insert adds one step (five with Shift),
\* key-down of - / Delete subtracts it, every other key event leaves the
\* IPD as it was, and a - press that undoes an earlier + press of the same
\* Shift state brings the IPD back to what it was before that + press.
C22_Original ==
  /\ IPDStepped
  /\ ipd.matched => IPD = ipd.target

\* every IPD since the first + press of the presses being undone, the one
\* before it included, lies strictly between 0.0625 and 0.125, the powers
\* of two around the default
BetweenPowersOfTwo ==
  /\ ipd.lo.e = IPDDefault.e /\ ipd.hi.e = IPDDefault.e
  /\ ipd.lo.m > Pow2(SigBits - 1)

\* the exponent of the IPD largest in magnitude since that + press
LargestExp == IF ipd.hi.e < ipd.lo.e THEN ipd.lo.e ELSE ipd.hi.e

\* the last presses were n presses of + and then n presses of -
PlusThenMinus == ipd.matched /\ ipd.downs <= ipd.ups

\* C22 amended: each hotkey press moves the IPD by the step to float
\* precision and every other key event and every frame leaves it as it
\* was.  A - press undoing a + press of the same Shift state restores the
\* IPD exactly when every IPD on the way lies strictly between 0.0625 and
\* 0.125; n presses of + followed by n presses of - otherwise bring it
\* back to within n times the spacing of the floats at the IPD largest in
\* magnitude on the way.
C22_Amended ==
  /\ IPDStepped
  /\ (ipd.matched /\ BetweenPowersOfTwo) => IPD = ipd.target
  /\ PlusThenMinus =>
       LET g == IF IPD.e < ipd.target.e THEN IPD.e ELSE ipd.target.e
       IN  Abs(F32Units(IPD, g) - F32Units(ipd.target, g))
             <= ipd.downs * Pow2(LargestExp - g)

\* from the default, + presses past 0.125 have all been undone by as many
\* - presses, a frame has run on the way, and the IPD is not the default
C22_Witness ==
  /\ PlusThenMinus /\ ipd.run = "down" /\ ipd.trail = << >>
  /\ ipd.downs = ipd.ups
  /\ ipd.target = IPDDefault /\ ipd.hi.e > IPDDefault.e
  /\ IPD # IPDDefault
  /\ frame.n > 0

\* the three presets of F1, F2 and F3
Presets ==
  { <<"Stereo_None", "PostProcess_None">>,
    <<"Stereo_LeftRight_Multipass", "PostProcess_None">>,
    <<"Stereo_LeftRight_Multipass", "PostProcess_Distortion">> }

\* C23: the pair (stereo mode, PostProcess) is always one of the three
\* presets; OnStartup leaves it the F3 preset; mono with distortion is
\* never reached; a Shift or P key event, a mouse move and a frame leave
\* the pair as it was.
C23_ThreePresets ==
  /\ [](<<StereoMode, PostProcess>> \in Presets)
  /\ [][(pc = "constructed" /\ pc' # pc)
          => <<StereoMode', PostProcess'>>
               = <<"Stereo_LeftRight_Multipass", "PostProcess_Distortion">>]_vars
  /\ [][(\/ ShiftDown' # ShiftDown
         \/ PostProcessShader' # PostProcessShader
         \/ lastOp'.op \in {"OnIdle", "OnMouseMove"})
          => UNCHANGED <<StereoMode, PostProcess>>]_vars

\* the F1 preset after the F2 preset, the shader toggled, frames rendered
\* in between
C23_Witness ==
  /\ <<StereoMode, PostProcess>> = <<"Stereo_None", "PostProcess_None">>
  /\ PostProcessShader = "PostProcessShader_Distortion"
  /\ lastOp.op = "OnIdle" /\ frame.n >= 2 /\ ShiftDown

\* the rotation matrix of the unit quaternion q = <<x, y, z, w>>, rows
\* first, in units of 1/TrigDen
QuatMatrix(q) ==
  LET x == q[1]
      y == q[2]
      z == q[3]
      w == q[4]
      k == TrigDen \div QOne
  IN  << <<k * (QOne - 2 * (y * y + z * z)), k * 2 * (x * y - w * z),
           k * 2 * (x * z + w * y)>>,
         <<k * 2 * (x * y + w * z), k * (QOne - 2 * (x * x + z * z)),
           k * 2 * (y * z - w * x)>>,
         <<k * 2 * (x * z - w * y), k * 2 * (y * z + w * x),
           k * (QOne - 2 * (x * x + y * y))>> >>

\* two rotation matrices agree to 2 parts in TrigDen in every entry
SameRotation(m, n) ==
  \A i \in 1 .. 3, j \in 1 .. 3 : Abs(m[i][j] - n[i][j]) <= 2

UnitQuat(q) == q[1] * q[1] + q[2] * q[2] + q[3] * q[3] + q[4] * q[4] = QOne

\* C24: for a unit quaternion sampled with -1 < s < 1, the rotation
\* RotationY(yaw)*RotationX(pitch)*RotationZ(roll) built from the angles of
\* its decomposition is the rotation of the quaternion.
C24_RoundTrip ==
  (/\ frame.n > 0 /\ frame.extSampled /\ ~frame.err
   /\ UnitQuat(tss_packet)
   /\ -QOne < frame.s /\ frame.s < QOne)
    => SameRotation(RollPitchYaw(frame.ext.yaw, frame.ext.pitch, frame.ext.roll),
                    QuatMatrix(tss_packet))

\* C25: Quit is a latch.  It is set by an Escape key-up, by a Q key-down
\* with Control held and by WM_CLOSE, and by nothing else (not by Q
\* without Control, a Q key-up or an Escape key-down); once set it stays
\* set, no frame is processed and no handler runs, and Run returns 0,
\* which becomes the exit code.
C25_QuitLatch ==
  /\ [][Quit => Quit']_vars
  /\ [][(~Quit /\ Quit') =>
          \/ lastOp'.key = <<"VK_ESCAPE", FALSE>>
          \/ (lastOp'.key = <<"Q", TRUE>> /\ ControlDown)
          \/ lastOp'.key = <<"WM_CLOSE", TRUE>>]_vars
  /\ [][(\/ lastOp'.key = <<"VK_ESCAPE", FALSE>>
         \/ (lastOp'.key = <<"Q", TRUE>> /\ ControlDown)
         \/ lastOp'.key = <<"WM_CLOSE", TRUE>>) => Quit']_vars
  /\ [][(\/ (lastOp'.key = <<"Q", TRUE>> /\ ~ControlDown)
         \/ lastOp'.key = <<"Q", FALSE>>
         \/ lastOp'.key = <<"VK_ESCAPE", TRUE>>) => Quit' = Quit]_vars
  /\ [][Quit => (frame' = frame /\ lastOp'.op = "other" /\ lastOp'.key = << >>
                   /\ UNCHANGED <<EyePos, View, poseVars, moveVars>>)]_vars
  /\ [][(Quit /\ pc = "running" /\ pc' # pc) => exitCode' = 0]_vars
  /\ []((Quit /\ pc # "running") => exitCode = 0)

\* the process has exited with code 0 after frames, a Q key-down without
\* Control having been survived (W still held, Control held at the end)
C25_Witness ==
  /\ Quit /\ pc = "exited" /\ exitCode = 0
  /\ frame.n >= 2 /\ ControlDown /\ MoveForward # 0

\* C26: an iteration of Run either dispatches one retrieved message or,
\* only when PeekMessage finds none, processes one frame, never both; no
\* handler runs while a frame is being processed, so the movement flags,
\* Shift, the gamepad vectors and the stereo configuration are those the
\* frame started with until it is presented, and the frame reads them.
C26_OneThingPerIteration ==
  /\ [][(~idle.open /\ idle'.open) => msgQueue = << >>]_vars
  /\ [][(msgQueue # << >> /\ msgQueue' = Tail(msgQueue))
          => (~idle.open /\ ~idle'.open /\ frame' = frame)]_vars
  /\ [][frame'.n = frame.n + 1
          => /\ idle.open /\ ~idle'.open
             /\ Len(msgQueue') >= Len(msgQueue)
             /\ FrameInput' = idle.input
             /\ motion'.src = "keyboard" =>
                  /\ motion'.keys = <<idle.input[1] # 0, idle.input[2] # 0,
                                      idle.input[3] # 0, idle.input[4] # 0>>
                  /\ motion'.shift = idle.input[5]
             /\ Len(SelectSeq(frame'.calls, IsSceneRender))
                  = (IF idle.input[8] = "Stereo_None" THEN 1 ELSE 2)]_vars
  /\ [](idle.open => FrameInput = idle.input)
  /\ [][idle.open => (idle'.open \/ frame'.n = frame.n + 1)]_vars

\* a frame has been processed with forward and Shift held and one eye
\* pass, while two messages posted during it wait in the queue
C26_Witness ==
  /\ lastOp.op = "OnIdle" /\ frame.n >= 2
  /\ Len(msgQueue) = 2
  /\ motion.src = "keyboard" /\ motion.shift
  /\ StereoMode = "Stereo_None"

\* C27: for every raw value of a short GamepadStick returns 0 inside the
\* dead zone (magnitude below 9000), a value in [-1, 1] otherwise, and is
\* non-decreasing in the raw value.
C27_StickMonotoneInRange ==
  poll.read =>
    /\ Abs(poll.raw) < DeadZone => poll.stick = 0
    /\ -StickDen <= poll.stick /\ poll.stick <= StickDen
    /\ poll.raw < 32767 => poll.stick <= GamepadStick(poll.raw + 1)

\* C28: the start-streaming loop runs in OnStartup only and makes at most
\* StreamAttempts passes, the last of them the first pass whose three calls
\* all succeed; when OnStartup returns tss_isStreaming is true exactly when
\* a pass that was made succeeded; nothing later makes another pass or sets
\* the flag, and after a start in which every pass failed no frame reads
\* the external tracker.
PassOk(i) == i \in DOMAIN hs.tries /\ hs.tries[i] = "ok"
C28_StreamStartOnlyAtStartup ==
  /\ [](hs.done =>
          /\ hs.attempts \in 1 .. StreamAttempts
          /\ \A i \in 1 .. hs.attempts - 1 : ~PassOk(i)
          /\ hs.attempts < StreamAttempts => PassOk(hs.attempts))
  /\ [](~hs.done => (hs.attempts = 0 /\ ~tss_isStreaming))
  /\ [](pc = "running" =>
          tss_isStreaming = (\E i \in 1 .. hs.attempts : PassOk(i)))
  /\ [][hs.done => (hs' = hs /\ (tss_isStreaming' => tss_isStreaming))]_vars
  /\ []((frame.n > 0 /\ ~(\E i \in 1 .. hs.attempts : PassOk(i)))
          => ~frame.extSampled)
C28_Witness ==
  /\ frame.n > 0 /\ ~frame.extSampled
  /\ hs.attempts = StreamAttempts
  /\ \A i \in 1 .. StreamAttempts : ~PassOk(i)
  /\ PassOk(StreamAttempts + 1)

====
